---- MODULE Spec2Model ----
(***************************************************************************)
(* A model of scripts/feishu_reader.py (class FeishuUnifiedReader): the    *)
(* type resolver, the four cursor-driven pagination loops, the single-node *)
(* wiki read and the recursive whole-space traversal.                      *)
(*                                                                         *)
(* One behaviour of the model is one call of one operation of the reader   *)
(* (variable op, chosen in Init together with the call's arguments).  The  *)
(* platform's answers are the environment: every request either fails or   *)
(* returns a payload drawn from a small set.                               *)
(***************************************************************************)
EXTENDS Integers, Sequences, FiniteSets, TLC

VARIABLES
    op,                   \* the operation this behaviour runs
    pc,                   \* its position: "loop"/"call"/... , "returned", "raised"
    tenant_access_token,  \* self.tenant_access_token (None until memoized)
    auth_calls,           \* number of posts to the credential endpoint
    page_token,           \* the pagination loop's local page_token
    all_items,            \* the loop's accumulator (all_items/all_children/all_nodes)
    all_records,          \* len(all_records) of _get_all_bitable_records
    sent,                 \* log: the cursor each request of the loop carried
    pages,                \* log: the payload of each page received
    arg,                  \* the token or URL the resolver is called with
    shape,                \* how arg was built: its words and, for a URL, its tail
    hier,                 \* the platform's wiki: roots, and each node's record
    recursive,            \* read_wiki_space's argument
    tree,                 \* the node dicts listed so far, by position in the tree
    stack,                \* the frames of _read_wiki_nodes_recursive
    reqlog,               \* log: the requests and calls the running read made
    locals,               \* the locals of the running read or reader
    result                \* the value the operation returned (Nothing before)

pagerVars == <<page_token, all_items, all_records, sent, pages>>
authVars == <<tenant_access_token, auth_calls>>
resolverVars == <<arg, shape>>
wikiVars == <<hier, recursive, tree, stack, reqlog, locals>>

(***************************************************************************)
(* Python values.                                                          *)
(***************************************************************************)
None == "None"
Nothing == [tag |-> "nothing"]
Raised == [tag |-> "raised"]

\* bool(x) of an optional string: None and "" are falsy.
Truthy(x) == x # None /\ x # ""

\* dict.get(key, default)
Get(d, key, default) == IF key \in DOMAIN d THEN d[key] ELSE default

(***************************************************************************)
(* Bounds of the model.                                                    *)
(***************************************************************************)
\* Entries kept in the logs sent and pages; later requests are not logged.
MaxLog == 3
\* Items the uncapped loops accumulate before the endpoint sends empty pages.
MaxItems == 3

Log(s, x) == IF Len(s) < MaxLog THEN Append(s, x) ELSE s

(***************************************************************************)
(* Program constants.                                                      *)
(***************************************************************************)
\* params = {"page_size": 500} of the record listing
RecordPageSize == 500
\* if len(all_records) > 10000
RecordCap == 10000

(***************************************************************************)
(* _make_request and get_tenant_access_token.  A request has three         *)
(* outcomes: the credential post fails (only while nothing is memoized),   *)
(* the request itself fails (HTTP error, timeout, non-zero code), or it    *)
(* returns data.  The first two raise.                                     *)
(***************************************************************************)
RequestOutcomes ==
    IF Truthy(tenant_access_token) THEN {"ok", "fail"}
    ELSE {"ok", "fail", "auth_fail"}

get_tenant_access_token(o) ==
    IF Truthy(tenant_access_token)
    THEN UNCHANGED authVars
    ELSE /\ auth_calls' = auth_calls + 1
         /\ tenant_access_token' = IF o = "auth_fail" THEN None ELSE "t"

make_request(o) ==
    /\ o \in RequestOutcomes
    /\ get_tenant_access_token(o)

(***************************************************************************)
(* The payloads a listing endpoint may return.  Keys may be missing: the   *)
(* code reads every key with a default.                                    *)
(***************************************************************************)
PageItems == {<<>>, <<"a">>, <<"b", "c">>}
Cursors == {"c1", "c2"}

ListPayloads ==
    [items : PageItems, has_more : {TRUE}, page_token : Cursors]
    \cup [items : PageItems, has_more : {TRUE}]
    \cup [items : PageItems, has_more : {FALSE}]
    \cup [items : PageItems]

\* The cursor parameter of a request: params["page_token"] only if truthy.
NoCursor == "no-cursor"
CursorParam(tok) == IF Truthy(tok) THEN tok ELSE NoCursor

(***************************************************************************)
(* One iteration of the `while True` loop of an uncapped listing:          *)
(* _get_all_blocks, _get_wiki_children, _get_wiki_space_nodes.  The first  *)
(* returns {"items": all_items}, the other two the list itself.            *)
(***************************************************************************)
\* PageLoopBody with each page put in front of the earlier ones.
PageLoopBodyPrepend(data) ==
    LET items == Get(data, "items", <<>>)
    IN  /\ all_items' = items \o all_items
        /\ pages' = Log(pages, data)
        /\ IF ~Get(data, "has_more", FALSE)
           THEN /\ pc' = "returned"
                /\ UNCHANGED page_token
           ELSE /\ page_token' = Get(data, "page_token", None)
                /\ pc' = "loop"

PageLoopBody(data) ==
    LET items == Get(data, "items", <<>>)
    IN  /\ all_items' = all_items \o items
        /\ pages' = Log(pages, data)
        /\ IF ~Get(data, "has_more", FALSE)
           THEN /\ pc' = "returned"
                /\ UNCHANGED page_token
           ELSE /\ page_token' = Get(data, "page_token", None)
                /\ pc' = "loop"

ListResult(opname, items) ==
    [tag |-> IF opname = "get_all_blocks" THEN "dict" ELSE "list", items |-> items]

\* PageLoop with a failed request tried again instead of raised.
PageLoopRetry(opname) ==
    /\ op = opname
    /\ pc = "loop"
    /\ sent' = Log(sent, CursorParam(page_token))
    /\ UNCHANGED all_records
    /\ \E o \in RequestOutcomes :
         /\ make_request(o)
         /\ IF o # "ok"
            THEN UNCHANGED <<pc, result, page_token, all_items, pages>>
            ELSE \E data \in ListPayloads :
                   /\ Len(all_items) + Len(Get(data, "items", <<>>)) <= MaxItems
                   /\ PageLoopBody(data)
                   /\ result' = IF pc' = "returned"
                                THEN ListResult(opname, all_items')
                                ELSE result
    /\ UNCHANGED <<op, resolverVars, wikiVars>>

PageLoop(opname) ==
    /\ op = opname
    /\ pc = "loop"
    /\ sent' = Log(sent, CursorParam(page_token))
    /\ UNCHANGED all_records
    /\ \E o \in RequestOutcomes :
         /\ make_request(o)
         /\ IF o # "ok"
            THEN /\ pc' = "raised"
                 /\ result' = Raised
                 /\ UNCHANGED <<page_token, all_items, pages>>
            ELSE \E data \in ListPayloads :
                   /\ Len(all_items) + Len(Get(data, "items", <<>>)) <= MaxItems
                   /\ PageLoopBody(data)
                   /\ result' = IF pc' = "returned"
                                THEN ListResult(opname, all_items')
                                ELSE result
    /\ UNCHANGED <<op, resolverVars, wikiVars>>

get_all_blocks == PageLoop("get_all_blocks")

get_wiki_children == PageLoop("get_wiki_children")

get_wiki_space_nodes == PageLoop("get_wiki_space_nodes")

(***************************************************************************)
(* One iteration of the loop of _get_all_bitable_records.  The list        *)
(* all_records is modelled by its length; a page holds 0, half a page or a *)
(* full page of records.                                                   *)
(***************************************************************************)
RecordPageLens == {0, RecordPageSize \div 2, RecordPageSize}

RecordPayloads ==
    [n : RecordPageLens, has_more : {TRUE}, page_token : Cursors]
    \cup [n : RecordPageLens, has_more : {TRUE}]
    \cup [n : RecordPageLens, has_more : {FALSE}]
    \cup [n : RecordPageLens]

\* CapExceeded one page late.
CapExceededLate(len) == len > RecordCap + RecordPageSize

CapExceeded(len) == len > RecordCap

RecordLoopBody(data) ==
    /\ all_records' = all_records + data.n
    /\ IF ~Get(data, "has_more", FALSE)
       THEN /\ pc' = "returned"
            /\ UNCHANGED page_token
       ELSE /\ page_token' = Get(data, "page_token", None)
            /\ pc' = IF CapExceeded(all_records') THEN "returned" ELSE "loop"

get_all_bitable_records ==
    /\ op = "get_all_bitable_records"
    /\ pc = "loop"
    /\ sent' = Log(sent, CursorParam(page_token))
    /\ UNCHANGED <<all_items, pages>>
    /\ \E o \in RequestOutcomes :
         /\ make_request(o)
         /\ IF o # "ok"
            THEN /\ pc' = "raised"
                 /\ result' = Raised
                 /\ UNCHANGED <<page_token, all_records>>
            ELSE \E data \in RecordPayloads :
                   /\ RecordLoopBody(data)
                   /\ result' = IF pc' = "returned"
                                THEN [tag |-> "list", len |-> all_records']
                                ELSE result
    /\ UNCHANGED <<op, resolverVars, wikiVars>>

(***************************************************************************)
(* Strings.  A Python str is modelled as the sequence of its characters,   *)
(* so that startswith, `in`, split and urlparse work on the characters.    *)
(* Chars maps the words the inputs are built from to their characters.     *)
(***************************************************************************)
Chars ==
    [ docx_  |-> <<"d", "o", "c", "x", "_">>,
      doc_   |-> <<"d", "o", "c", "_">>,
      sheet_ |-> <<"s", "h", "e", "e", "t", "_">>,
      shtcn  |-> <<"s", "h", "t", "c", "n">>,
      base   |-> <<"b", "a", "s", "e">>,
      bascn  |-> <<"b", "a", "s", "c", "n">>,
      wikcn  |-> <<"w", "i", "k", "c", "n">>,
      docx   |-> <<"d", "o", "c", "x">>,
      doc    |-> <<"d", "o", "c">>,
      wiki   |-> <<"w", "i", "k", "i">>,
      sheets |-> <<"s", "h", "e", "e", "t", "s">>,
      file   |-> <<"f", "i", "l", "e">>,
      http   |-> <<"h", "t", "t", "p">>,
      https  |-> <<"h", "t", "t", "p", "s">>,
      host   |-> <<"x", ".", "c", "n">>,
      Ab1    |-> <<"A", "b", "1">>,
      Zq     |-> <<"Z", "q">>,
      httpbase_Ab1 |-> <<"h", "t", "t", "p", "b", "a", "s", "e", ":", "A", "b", "1">>,
      empty  |-> <<>> ]

StartsWith(s, p) == Len(p) <= Len(s) /\ SubSeq(s, 1, Len(p)) = p

\* p in s
Contains(s, p) == \E i \in 0..(Len(s) - Len(p)) : SubSeq(s, i + 1, i + Len(p)) = p

\* s.find(c): the first index of character c in s, 0 if there is none
\* (indices from 1).
Find(s, c) ==
    IF \E i \in 1..Len(s) : s[i] = c
    THEN CHOOSE i \in 1..Len(s) : s[i] = c /\ \A j \in 1..(i - 1) : s[j] # c
    ELSE 0

\* s.rfind(c)
RFind(s, c) ==
    IF \E i \in 1..Len(s) : s[i] = c
    THEN CHOOSE i \in 1..Len(s) : s[i] = c /\ \A j \in (i + 1)..Len(s) : s[j] # c
    ELSE 0

\* s.split(c)[0]
Before(s, c) == IF Find(s, c) = 0 THEN s ELSE SubSeq(s, 1, Find(s, c) - 1)

\* s.split(c, 1)[1], for c in s
After(s, c) == SubSeq(s, Find(s, c) + 1, Len(s))

RECURSIVE Split(_, _)
\* s.split(c)
Split(s, c) ==
    IF Find(s, c) = 0 THEN <<s>>
    ELSE <<Before(s, c)>> \o Split(After(s, c), c)

(***************************************************************************)
(* urlparse(url).path, as urllib computes it: the scheme up to the first   *)
(* ":" is removed when it is made of scheme characters, then "//netloc",   *)
(* then the fragment, the query, and the ";params" of the last segment.    *)
(***************************************************************************)
SchemeChars ==
    {"a", "b", "c", "d", "e", "f", "h", "i", "k", "l", "n", "o", "p", "q", "s",
     "t", "w", "x", "A", "Z", "1", "."}

Letters == SchemeChars \ {"1", "."}

StripScheme(url) ==
    LET i == Find(url, ":")
    IN  IF i > 1 /\ url[1] \in Letters /\ \A j \in 1..(i - 1) : url[j] \in SchemeChars
        THEN SubSeq(url, i + 1, Len(url))
        ELSE url

\* _splitnetloc(url, 2): the netloc ends at the first of "/", "?", "#".
StripNetloc(u) ==
    IF StartsWith(u, <<"/", "/">>)
    THEN LET rest == SubSeq(u, 3, Len(u))
             ends == {i \in 1..Len(rest) : rest[i] \in {"/", "?", "#"}}
         IN  IF ends = {} THEN <<>>
             ELSE SubSeq(rest, CHOOSE i \in ends : \A j \in ends : i <= j, Len(rest))
    ELSE u

\* _splitparams(url)
SplitParams(u) ==
    LET from == RFind(u, "/")
        semis == {i \in (from + 1)..Len(u) : u[i] = ";"}
    IN  IF semis = {} THEN u
        ELSE SubSeq(u, 1, (CHOOSE i \in semis : \A j \in semis : i <= j) - 1)

UrlPath(url) ==
    SplitParams(Before(Before(StripNetloc(StripScheme(url)), "#"), "?"))

(***************************************************************************)
(* _extract_token_from_url                                                 *)
(***************************************************************************)
UrlMarkers ==
    {Chars.docx, Chars.doc, Chars.wiki, Chars.sheets, Chars.base, Chars.file}

\* MarkerHit with the bound on i + 1 off by one.
MarkerHitOffByOne(path_parts, i) ==
    path_parts[i] \in UrlMarkers /\ i + 1 < Len(path_parts)

\* The guard of the return inside the marker loop.
MarkerHit(path_parts, i) == path_parts[i] \in UrlMarkers /\ i + 1 <= Len(path_parts)

extract_token_from_url(url) ==
    LET path_parts == Split(UrlPath(url), "/")
        hits == {i \in 1..Len(path_parts) : MarkerHit(path_parts, i)}
        nonempty == {i \in 1..Len(path_parts) : path_parts[i] # <<>>}
    IN  IF hits # {}
        THEN Before(path_parts[(CHOOSE i \in hits : \A j \in hits : i <= j) + 1], "?")
        ELSE IF nonempty # {}
        THEN Before(path_parts[CHOOSE i \in nonempty : \A j \in nonempty : i >= j], "?")
        ELSE url

(***************************************************************************)
(* TOKEN_PREFIXES, in the dict's insertion order, and detect_type.         *)
(***************************************************************************)
\* TOKEN_PREFIXES with the wiki prefix listed first.
TOKEN_PREFIXES_WikiFirst ==
    << [prefix |-> Chars.wikcn,  type |-> "wiki"],
       [prefix |-> Chars.docx_,  type |-> "docx"],
       [prefix |-> Chars.doc_,   type |-> "doc"],
       [prefix |-> Chars.sheet_, type |-> "sheet"],
       [prefix |-> Chars.shtcn,  type |-> "sheet"],
       [prefix |-> Chars.base,   type |-> "bitable"],
       [prefix |-> Chars.bascn,  type |-> "bitable"] >>

TOKEN_PREFIXES ==
    << [prefix |-> Chars.docx_,  type |-> "docx"],
       [prefix |-> Chars.doc_,   type |-> "doc"],
       [prefix |-> Chars.sheet_, type |-> "sheet"],
       [prefix |-> Chars.shtcn,  type |-> "sheet"],
       [prefix |-> Chars.base,   type |-> "bitable"],
       [prefix |-> Chars.bascn,  type |-> "bitable"],
       [prefix |-> Chars.wikcn,  type |-> "wiki"] >>

\* detect_type with the kind of a spreadsheet URL taken from its path marker.
detect_type_by_marker(token_or_url) ==
    LET token == IF StartsWith(token_or_url, Chars.http)
                 THEN extract_token_from_url(token_or_url)
                 ELSE token_or_url
        hits == {i \in 1..Len(TOKEN_PREFIXES) :
                    StartsWith(token, TOKEN_PREFIXES[i].prefix)
                        \/ Contains(token, TOKEN_PREFIXES[i].prefix)}
    IN  IF StartsWith(token_or_url, Chars.http)
             /\ Contains(UrlPath(token_or_url), <<"/">> \o Chars.sheets \o <<"/">>)
        THEN [tag |-> "type", type |-> "sheet", token |-> token, warned |-> FALSE]
        ELSE IF hits # {}
        THEN [tag |-> "type", type |-> TOKEN_PREFIXES[CHOOSE i \in hits :
                                          \A j \in hits : i <= j].type,
              token |-> token, warned |-> FALSE]
        ELSE [tag |-> "type", type |-> "docx", token |-> token, warned |-> TRUE]

\* The condition of the `if` inside the prefix loop.
PrefixMatches(token, prefix) == StartsWith(token, prefix) \/ Contains(token, prefix)

detect_type(token_or_url) ==
    LET token == IF StartsWith(token_or_url, Chars.http)
                 THEN extract_token_from_url(token_or_url)
                 ELSE token_or_url
        hits == {i \in 1..Len(TOKEN_PREFIXES) :
                    PrefixMatches(token, TOKEN_PREFIXES[i].prefix)}
    IN  IF hits # {}
        THEN [tag |-> "type", type |-> TOKEN_PREFIXES[CHOOSE i \in hits :
                                          \A j \in hits : i <= j].type,
              token |-> token, warned |-> FALSE]
        ELSE [tag |-> "type", type |-> "docx", token |-> token, warned |-> TRUE]

(***************************************************************************)
(* The resolver's inputs.  A raw token is a concatenation of words; a URL  *)
(* is "https://" host, then "/" word for each path segment (the word empty *)
(* gives an empty segment), then a tail.                                   *)
(***************************************************************************)
\* Words in a raw token.
MaxPieces == 2
\* Segments in a URL's path.
MaxSegs == 3

TokenPieces ==
    {"docx_", "doc_", "sheet_", "shtcn", "base", "bascn", "wikcn", "Ab1", "Zq"}

SegWords ==
    {"docx", "wiki", "sheets", "base", "wikcn", "Ab1", "httpbase_Ab1", "empty"}

Tails ==
    {<<>>, <<"?", "t", "=", "1">>, <<"#", "f">>, <<";", "p">>}

SeqsUpTo(S, n) == UNION {[1..k -> S] : k \in 0..n}

TokenShapes ==
    {[kind |-> "token", words |-> w, tail |-> <<>>] :
        w \in SeqsUpTo(TokenPieces, MaxPieces) \ {<<>>}}

UrlShapes ==
    {[kind |-> "url", words |-> w, tail |-> t] :
        w \in SeqsUpTo(SegWords, MaxSegs), t \in Tails}

RECURSIVE Concat(_)
Concat(words) ==
    IF words = <<>> THEN <<>> ELSE Chars[Head(words)] \o Concat(Tail(words))

RECURSIVE Path(_)
Path(words) ==
    IF words = <<>> THEN <<>> ELSE <<"/">> \o Chars[Head(words)] \o Path(Tail(words))

Render(sh) ==
    IF sh.kind = "token" THEN Concat(sh.words)
    ELSE Chars.https \o <<":", "/", "/">> \o Chars.host \o Path(sh.words) \o sh.tail

(***************************************************************************)
(* Calls of the resolver.                                                  *)
(***************************************************************************)
call_detect_type ==
    /\ op = "detect_type"
    /\ pc = "call"
    /\ result' = detect_type(arg)
    /\ pc' = "returned"
    /\ UNCHANGED <<op, arg, shape, authVars, pagerVars, wikiVars>>

call_extract_token_from_url ==
    /\ op = "extract_token_from_url"
    /\ pc = "call"
    /\ result' = [tag |-> "token", token |-> extract_token_from_url(arg)]
    /\ pc' = "returned"
    /\ UNCHANGED <<op, arg, shape, authVars, pagerVars, wikiVars>>

(***************************************************************************)
(* Wiki nodes.  A node dict as a listing returns it has node_token,        *)
(* obj_type and has_child; the traversal adds content, content_error,      *)
(* children and children_error.  A key that is not set is Absent.          *)
(***************************************************************************)
Absent == "absent"
Resolved == "resolved"
Listed == "listed"
Msg == "str(e)"

ReadableTypes == {"docx", "doc", "sheet", "bitable"}

NodeDict(h, token) ==
    [node_token |-> token, obj_type |-> h.nodes[token].obj_type,
     has_child |-> h.nodes[token].has_child,
     content |-> Absent, content_error |-> Absent,
     children |-> Absent, children_error |-> Absent]

\* The node dicts of a listing, placed under the position `parent`.
Placed(h, parent, tokens) ==
    [p \in {parent \o <<k>> : k \in 1..Len(tokens)} |->
        NodeDict(h, tokens[p[Len(p)]])]

\* Nesting depth of a position: the nodes passed in first are at depth 0.
Depth(p) == Len(p) - 1

(***************************************************************************)
(* The wikis read.  Chain8: 8 nested nodes, each declaring has_child.      *)
(* Roots3: three childless roots of the readable kinds.  Mixed: kinds      *)
(* without a reader, and a child listing that contains an ancestor.        *)
(***************************************************************************)
WikiNode(t, c, k) == [obj_type |-> t, has_child |-> c, kids |-> k]

Chain8 ==
    [name |-> "chain8", roots |-> <<"n0">>,
     nodes |-> [n0 |-> WikiNode("docx", TRUE, <<"n1">>),
                n1 |-> WikiNode("sheet", TRUE, <<"n2">>),
                n2 |-> WikiNode("bitable", TRUE, <<"n3">>),
                n3 |-> WikiNode("doc", TRUE, <<"n4">>),
                n4 |-> WikiNode("docx", TRUE, <<"n5">>),
                n5 |-> WikiNode("sheet", TRUE, <<"n6">>),
                n6 |-> WikiNode("docx", TRUE, <<"n7">>),
                n7 |-> WikiNode("docx", TRUE, <<>>)]]

Roots3 ==
    [name |-> "roots3", roots |-> <<"r1", "r2", "r3">>,
     nodes |-> [r1 |-> WikiNode("docx", FALSE, <<>>),
                r2 |-> WikiNode("sheet", FALSE, <<>>),
                r3 |-> WikiNode("bitable", FALSE, <<>>)]]

Mixed ==
    [name |-> "mixed", roots |-> <<"m1", "m2">>,
     nodes |-> [m1 |-> WikiNode("file", TRUE, <<"m3", "m4">>),
                m2 |-> WikiNode("doc", FALSE, <<>>),
                m3 |-> WikiNode("slides", FALSE, <<>>),
                m4 |-> WikiNode("docx", TRUE, <<"m1">>)]]

Wikis == {Chain8, Roots3, Mixed}

(***************************************************************************)
(* The calls a wiki read makes.  A reader (_read_docx, _read_sheet,        *)
(* _read_bitable) and a listing (_get_wiki_space_nodes, _get_wiki_children) *)
(* either raise or return; the credential is fetched by the first request  *)
(* of the call if none is memoized.  A listing that returns, returns the   *)
(* node's children in the platform's order.                                *)
(***************************************************************************)
ReaderFor(obj_type) ==
    IF obj_type \in {"docx", "doc"} THEN "_read_docx"
    ELSE IF obj_type = "sheet" THEN "_read_sheet"
    ELSE IF obj_type = "bitable" THEN "_read_bitable"
    ELSE None

\* A log entry: the call made, the position and depth of the node it is made
\* for, and which way it went.
Request(kind, at, depth, o) ==
    [kind |-> kind, at |-> at, depth |-> depth, outcome |-> o]

(***************************************************************************)
(* read_wiki_space                                                         *)
(***************************************************************************)
Frame(parent, n, depth) ==
    [parent |-> parent, n |-> n, i |-> 1, depth |-> depth, at |-> "entry"]

Top == stack[Len(stack)]
SetTop(f) == [stack EXCEPT ![Len(stack)] = f]
\* Current with the list walked from its last node to its first.
CurrentReversed == Top.parent \o <<Top.n + 1 - Top.i>>

Current == Top.parent \o <<Top.i>>

space_info ==
    /\ op = "read_wiki_space"
    /\ pc = "space_info"
    /\ \E o \in RequestOutcomes :
         /\ make_request(o)
         /\ reqlog' = Append(reqlog, Request("space", <<>>, 0, o))
         /\ IF o = "ok"
            THEN pc' = "root_nodes" /\ UNCHANGED result
            ELSE pc' = "raised" /\ result' = Raised
    /\ UNCHANGED <<op, resolverVars, pagerVars, hier, recursive, tree, stack, locals>>

SpaceResult(nodes) ==
    [tag |-> "space", nodes |-> nodes, node_count |-> Len(nodes)]

\* The list `nodes` of read_wiki_space: the root positions, in order.
RootList == [k \in 1..Cardinality({p \in DOMAIN tree : Len(p) = 1}) |-> tree[<<k>>]]

\* root_nodes with the traversal run whatever `recursive` is.
root_nodes_traversed ==
    /\ op = "read_wiki_space"
    /\ pc = "root_nodes"
    /\ \E o \in RequestOutcomes :
         /\ make_request(o)
         /\ reqlog' = Append(reqlog, Request("list", <<>>, 0, o))
         /\ IF o # "ok"
            THEN /\ pc' = "raised"
                 /\ result' = Raised
                 /\ UNCHANGED <<tree, stack>>
            ELSE /\ tree' = Placed(hier, <<>>, hier.roots)
                 /\ stack' = <<Frame(<<>>, Len(hier.roots), 0)>>
                 /\ pc' = "traverse"
                 /\ UNCHANGED result
    /\ UNCHANGED <<op, resolverVars, pagerVars, hier, recursive, locals>>

root_nodes ==
    /\ op = "read_wiki_space"
    /\ pc = "root_nodes"
    /\ \E o \in RequestOutcomes :
         /\ make_request(o)
         /\ reqlog' = Append(reqlog, Request("list", <<>>, 0, o))
         /\ IF o # "ok"
            THEN /\ pc' = "raised"
                 /\ result' = Raised
                 /\ UNCHANGED <<tree, stack>>
            ELSE /\ tree' = Placed(hier, <<>>, hier.roots)
                 /\ IF recursive
                    THEN /\ stack' = <<Frame(<<>>, Len(hier.roots), 0)>>
                         /\ pc' = "traverse"
                         /\ UNCHANGED result
                    ELSE /\ pc' = "returned"
                         /\ result' = SpaceResult([k \in 1..Len(hier.roots) |->
                                                     tree'[<<k>>]])
                         /\ UNCHANGED stack
    /\ UNCHANGED <<op, resolverVars, pagerVars, hier, recursive, locals>>

(***************************************************************************)
(* _read_wiki_nodes_recursive, one frame of `stack` per activation.        *)
(***************************************************************************)
\* if depth > 5
MaxDepth == 5

\* DepthExceeded one level late.
DepthExceededLate(depth) == depth > MaxDepth + 1

\* DepthExceeded with >= for >: the traversal stops one level early.
DepthExceededEarly(depth) == depth >= MaxDepth

DepthExceeded(depth) == depth > MaxDepth

\* `return nodes`: the caller stores the list under "children" and goes on to
\* its next node; the outermost caller is read_wiki_space, which returns.
ReturnNodes ==
    IF Len(stack) = 1
    THEN /\ stack' = <<>>
         /\ pc' = "returned"
         /\ result' = SpaceResult(RootList)
         /\ UNCHANGED tree
    ELSE LET caller == stack[Len(stack) - 1]
             node == caller.parent \o <<caller.i>>
         IN  /\ tree' = [tree EXCEPT ![node].children = Listed]
             /\ stack' = [SubSeq(stack, 1, Len(stack) - 1) EXCEPT
                             ![Len(stack) - 1] =
                                 [caller EXCEPT !.i = caller.i + 1, !.at = "content"]]
             /\ UNCHANGED <<pc, result>>

recursive_entry ==
    /\ op = "read_wiki_space"
    /\ pc = "traverse"
    /\ Top.at = "entry"
    /\ IF DepthExceeded(Top.depth)
       THEN ReturnNodes
       ELSE /\ stack' = SetTop([Top EXCEPT !.at = "content"])
            /\ UNCHANGED <<pc, result, tree>>
    /\ UNCHANGED <<op, resolverVars, pagerVars, authVars, hier, recursive, reqlog,
                   locals>>

recursive_return ==
    /\ op = "read_wiki_space"
    /\ pc = "traverse"
    /\ Top.at = "content"
    /\ Top.i > Top.n
    /\ ReturnNodes
    /\ UNCHANGED <<op, resolverVars, pagerVars, authVars, hier, recursive, reqlog,
                   locals>>

\* NodeContent with the failure swallowed: no content_error is recorded.
NodeContentSwallowed(node, o) ==
    IF o = "ok" THEN [node EXCEPT !.content = Resolved] ELSE node

\* NodeContent with a partial content stored before the failure is recorded.
NodeContentPartial(node, o) ==
    IF o = "ok"
    THEN [node EXCEPT !.content = Resolved]
    ELSE [node EXCEPT !.content = Resolved, !.content_error = Msg]

\* The try/except around the reader call of a node.
NodeContent(node, o) ==
    IF o = "ok"
    THEN [node EXCEPT !.content = Resolved]
    ELSE [node EXCEPT !.content_error = Msg]

recursive_content ==
    /\ op = "read_wiki_space"
    /\ pc = "traverse"
    /\ Top.at = "content"
    /\ Top.i <= Top.n
    /\ IF ReaderFor(tree[Current].obj_type) # None
       THEN \E o \in RequestOutcomes :
              /\ make_request(o)
              /\ reqlog' = Append(reqlog, Request(ReaderFor(tree[Current].obj_type),
                                                  Current, Top.depth, o))
              /\ tree' = [tree EXCEPT ![Current] = NodeContent(tree[Current], o)]
       ELSE UNCHANGED <<authVars, reqlog, tree>>
    /\ stack' = SetTop([Top EXCEPT !.at = "children"])
    /\ UNCHANGED <<op, pc, result, resolverVars, pagerVars, hier, recursive, locals>>

recursive_children ==
    /\ op = "read_wiki_space"
    /\ pc = "traverse"
    /\ Top.at = "children"
    /\ IF tree[Current].has_child
       THEN \E o \in RequestOutcomes :
              /\ make_request(o)
              /\ reqlog' = Append(reqlog, Request("list", Current, Top.depth, o))
              /\ IF o = "ok"
                 THEN LET kids == hier.nodes[tree[Current].node_token].kids
                      IN  /\ tree' = Placed(hier, Current, kids) @@ tree
                          /\ stack' = Append(stack, Frame(Current, Len(kids),
                                                          Top.depth + 1))
                 ELSE /\ tree' = [tree EXCEPT ![Current].children_error = Msg]
                      /\ stack' = SetTop([Top EXCEPT !.i = Top.i + 1,
                                                     !.at = "content"])
       ELSE /\ stack' = SetTop([Top EXCEPT !.i = Top.i + 1, !.at = "content"])
            /\ UNCHANGED <<authVars, reqlog, tree>>
    /\ UNCHANGED <<op, pc, result, resolverVars, pagerVars, hier, recursive, locals>>

(***************************************************************************)
(* _read_wiki: the node's info, its content, its child list.               *)
(***************************************************************************)
Note == "note"
ErrorDict == "error-dict"

wiki_node_info ==
    /\ op = "read_wiki"
    /\ pc = "node_info"
    /\ \E o \in RequestOutcomes :
         /\ make_request(o)
         /\ reqlog' = Append(reqlog, Request("get_node", <<1>>, 0, o))
         /\ IF o = "ok"
            THEN /\ locals' = [locals EXCEPT
                                 !.node_info = [node_token |-> locals.token,
                                     obj_type |-> hier.nodes[locals.token].obj_type,
                                     has_child |-> hier.nodes[locals.token].has_child]]
                 /\ pc' = "content"
                 /\ UNCHANGED result
            ELSE /\ pc' = "raised"
                 /\ result' = Raised
                 /\ UNCHANGED locals
    /\ UNCHANGED <<op, resolverVars, pagerVars, hier, recursive, tree, stack>>

\* The try/except around the reader call: a failure becomes the content.
WikiContent(o) == IF o = "ok" THEN Resolved ELSE ErrorDict

wiki_content ==
    /\ op = "read_wiki"
    /\ pc = "content"
    /\ IF ReaderFor(locals.node_info.obj_type) # None
       THEN \E o \in RequestOutcomes :
              /\ make_request(o)
              /\ reqlog' = Append(reqlog,
                     Request(ReaderFor(locals.node_info.obj_type), <<1>>, 0, o))
              /\ locals' = [locals EXCEPT !.content = WikiContent(o)]
       ELSE /\ locals' = [locals EXCEPT !.content = Note]
            /\ UNCHANGED <<authVars, reqlog>>
    /\ pc' = "children"
    /\ UNCHANGED <<op, result, resolverVars, pagerVars, hier, recursive, tree, stack>>

\* The dict _read_wiki returns.
WikiResult(node_info, content, children) ==
    [tag |-> "wiki", node |-> node_info, content |-> content, children |-> children]

wiki_children ==
    /\ op = "read_wiki"
    /\ pc = "children"
    /\ IF locals.node_info.has_child
       THEN \E o \in RequestOutcomes :
              /\ make_request(o)
              /\ reqlog' = Append(reqlog, Request("list", <<1>>, 0, o))
              /\ LET kids == hier.nodes[locals.token].kids
                     children == IF o = "ok"
                                 THEN [k \in 1..Len(kids) |-> NodeDict(hier, kids[k])]
                                 ELSE <<>>
                 IN  result' = WikiResult(locals.node_info, locals.content, children)
       ELSE /\ result' = WikiResult(locals.node_info, locals.content, <<>>)
            /\ UNCHANGED <<authVars, reqlog>>
    /\ pc' = "returned"
    /\ UNCHANGED <<op, locals, resolverVars, pagerVars, hier, recursive, tree, stack>>

(***************************************************************************)
(* read: the top-level read of one resource.  The kind is the caller's     *)
(* doc_type when one is given, else the resolver's; the reader of the kind *)
(* is called (its own steps are the operations _read_doc, _read_sheet,     *)
(* _read_bitable, _read_wiki below and above: here the call either raises  *)
(* or returns the reader's dict), and _meta is stored on what it returned. *)
(***************************************************************************)
DocTypes == {None, "", "docx", "doc", "sheet", "bitable", "wiki", "file", "slides"}

\* The dict `readers` of read.
Readers ==
    [docx |-> "_read_docx", doc |-> "_read_doc", sheet |-> "_read_sheet",
     bitable |-> "_read_bitable", wiki |-> "_read_wiki"]

\* The tokens and URLs read is called with.
ReadShapes ==
    {[kind |-> "token", words |-> <<w>>, tail |-> <<>>] : w \in TokenPieces}
    \cup {[kind |-> "url", words |-> <<m, w>>, tail |-> t] :
             m \in {"docx", "sheets", "wiki"}, w \in {"wikcn", "base", "Ab1"},
             t \in {<<>>, <<"?", "t", "=", "1">>}}

read_resolve ==
    /\ op = "read"
    /\ pc = "call"
    /\ locals' =
         IF Truthy(locals.doc_type)
         THEN [locals EXCEPT
                 !.detected_type = locals.doc_type,
                 !.token = IF StartsWith(arg, Chars.http)
                           THEN extract_token_from_url(arg)
                           ELSE arg]
         ELSE [locals EXCEPT
                 !.detected_type = detect_type(arg).type,
                 !.token = detect_type(arg).token]
    /\ pc' = "dispatch"
    /\ UNCHANGED <<op, result, authVars, pagerVars, resolverVars, hier, recursive,
                   tree, stack, reqlog>>

\* result["_meta"] = {"type": detected_type, "token": token}
WithMeta(res, detected_type, token) ==
    [k \in DOMAIN res \cup {"_meta"} |->
        IF k = "_meta" THEN [type |-> detected_type, token |-> token] ELSE res[k]]

read_dispatch ==
    /\ op = "read"
    /\ pc = "dispatch"
    /\ IF locals.detected_type \notin DOMAIN Readers
       THEN /\ pc' = "raised"
            /\ result' = Raised
            /\ UNCHANGED <<authVars, reqlog>>
       ELSE \E o \in RequestOutcomes :
              /\ make_request(o)
              /\ reqlog' = Append(reqlog,
                     Request(Readers[locals.detected_type], <<>>, 0, o))
              /\ IF o = "ok"
                 THEN /\ pc' = "returned"
                      /\ result' = WithMeta([tag |-> Readers[locals.detected_type]],
                                            locals.detected_type, locals.token)
                 ELSE /\ pc' = "raised"
                      /\ result' = Raised
    /\ UNCHANGED <<op, locals, pagerVars, resolverVars, hier, recursive, tree, stack>>

(***************************************************************************)
(* _read_doc and _read_docx.  The log entry of a request names the token   *)
(* it was made for.  _get_all_blocks is the pagination loop above: here    *)
(* the call either raises or returns the block list.                       *)
(***************************************************************************)
DocTokens == {"d1", "d2"}

\* LegacyFailed that lets a failure of the credential post through.
LegacyFailedOnlyRequest(o) == o = "fail"

\* `except Exception` of _read_doc: any failure of the legacy request.
LegacyFailed(o) == o # "ok"

DocResult(meta) == [tag |-> "doc", document |-> meta, note |-> Note]

DocxResult(doc_token) ==
    [tag |-> "docx", document |-> doc_token, blocks |-> Listed,
     text_content |-> Resolved]

read_doc_legacy ==
    /\ op = "read_doc"
    /\ pc = "legacy"
    /\ \E o \in RequestOutcomes :
         /\ make_request(o)
         /\ reqlog' = Append(reqlog, Request("doc_meta", locals.doc_token, 0, o))
         /\ IF LegacyFailed(o)
            THEN /\ pc' = "docx_info"
                 /\ locals' = [locals EXCEPT !.docx_token = locals.doc_token]
                 /\ UNCHANGED result
            ELSE /\ pc' = "returned"
                 /\ result' = DocResult(locals.doc_token)
                 /\ UNCHANGED locals
    /\ UNCHANGED <<op, pagerVars, resolverVars, hier, recursive, tree, stack>>

read_docx_info ==
    /\ op \in {"read_doc", "read_docx"}
    /\ pc = "docx_info"
    /\ \E o \in RequestOutcomes :
         /\ make_request(o)
         /\ reqlog' = Append(reqlog, Request("docx_info", locals.docx_token, 0, o))
         /\ IF o = "ok"
            THEN pc' = "docx_blocks" /\ UNCHANGED result
            ELSE pc' = "raised" /\ result' = Raised
    /\ UNCHANGED <<op, locals, pagerVars, resolverVars, hier, recursive, tree, stack>>

read_docx_blocks ==
    /\ op \in {"read_doc", "read_docx"}
    /\ pc = "docx_blocks"
    /\ \E o \in RequestOutcomes :
         /\ make_request(o)
         /\ reqlog' = Append(reqlog,
                Request("_get_all_blocks", locals.docx_token, 0, o))
         /\ IF o = "ok"
            THEN pc' = "returned" /\ result' = DocxResult(locals.docx_token)
            ELSE pc' = "raised" /\ result' = Raised
    /\ UNCHANGED <<op, locals, pagerVars, resolverVars, hier, recursive, tree, stack>>

(***************************************************************************)
(* _read_sheet and _read_bitable.  The metadata lists the sheets (tables); *)
(* each is fetched inside its own try/except and appended to sheets_data   *)
(* (tables_content), with its values or with the error.  A log entry names *)
(* the index of the sub-item the request was made for (0: the metadata).   *)
(***************************************************************************)
\* Sheets of a spreadsheet, tables of a bitable.
MaxSubItems == 3

SubItemIds == {"s1", "s2"}

\* meta["spreadsheet"]["sheets"], tables_data["items"]: ids, in listing order.
Listings == SeqsUpTo(SubItemIds, MaxSubItems)

\* SheetEntry with a failed sheet left out of sheets_data.
SheetEntryDropped(sheets_data, sheet_id, o) ==
    IF o = "ok"
    THEN Append(sheets_data, [sheet_id |-> sheet_id, title |-> sheet_id,
                              properties |-> sheet_id, values |-> Resolved])
    ELSE sheets_data

\* The try/except of the sheet loop: sheets_data.append(...) either way.
SheetEntry(sheets_data, sheet_id, o) ==
    IF o = "ok"
    THEN Append(sheets_data, [sheet_id |-> sheet_id, title |-> sheet_id,
                              properties |-> sheet_id, values |-> Resolved])
    ELSE Append(sheets_data, [sheet_id |-> sheet_id, title |-> sheet_id,
                              properties |-> sheet_id, error |-> Msg])

read_sheet_meta ==
    /\ op = "read_sheet"
    /\ pc = "meta"
    /\ \E o \in RequestOutcomes :
         /\ make_request(o)
         /\ reqlog' = Append(reqlog, Request("sheet_meta", 0, 0, o))
         /\ IF o = "ok"
            THEN /\ pc' = "items"
                 /\ locals' = [locals EXCEPT !.items = locals.listing]
                 /\ UNCHANGED result
            ELSE /\ pc' = "raised"
                 /\ result' = Raised
                 /\ UNCHANGED locals
    /\ UNCHANGED <<op, pagerVars, resolverVars, hier, recursive, tree, stack>>

read_sheet_values ==
    /\ op = "read_sheet"
    /\ pc = "items"
    /\ locals.i <= Len(locals.items)
    /\ \E o \in RequestOutcomes :
         /\ make_request(o)
         /\ reqlog' = Append(reqlog, Request("sheet_values", locals.i, 0, o))
         /\ locals' = [locals EXCEPT
                         !.data = SheetEntry(locals.data, locals.items[locals.i], o),
                         !.i = locals.i + 1]
    /\ UNCHANGED <<op, pc, result, pagerVars, resolverVars, hier, recursive, tree,
                   stack>>

read_sheet_return ==
    /\ op = "read_sheet"
    /\ pc = "items"
    /\ locals.i > Len(locals.items)
    /\ pc' = "returned"
    /\ result' = [tag |-> "sheet",
                  spreadsheet |-> [sheet_count |-> Len(locals.items)],
                  sheets |-> locals.data]
    /\ UNCHANGED <<op, locals, authVars, pagerVars, resolverVars, hier, recursive,
                   tree, stack, reqlog>>

\* The except branch of the table loop.
TableError(table_id) == [table_id |-> table_id, name |-> table_id, error |-> Msg]

TableEntry(table_id) ==
    [table_id |-> table_id, name |-> table_id, fields |-> Listed,
     records |-> Listed, record_count |-> 0]

read_bitable_meta ==
    /\ op = "read_bitable"
    /\ pc = "meta"
    /\ \E o \in RequestOutcomes :
         /\ make_request(o)
         /\ reqlog' = Append(reqlog, Request("bitable_meta", 0, 0, o))
         /\ IF o = "ok"
            THEN pc' = "tables" /\ UNCHANGED result
            ELSE pc' = "raised" /\ result' = Raised
    /\ UNCHANGED <<op, locals, pagerVars, resolverVars, hier, recursive, tree, stack>>

read_bitable_tables ==
    /\ op = "read_bitable"
    /\ pc = "tables"
    /\ \E o \in RequestOutcomes :
         /\ make_request(o)
         /\ reqlog' = Append(reqlog, Request("bitable_tables", 0, 0, o))
         /\ IF o = "ok"
            THEN /\ pc' = "fields"
                 /\ locals' = [locals EXCEPT !.items = locals.listing]
                 /\ UNCHANGED result
            ELSE /\ pc' = "raised"
                 /\ result' = Raised
                 /\ UNCHANGED locals
    /\ UNCHANGED <<op, pagerVars, resolverVars, hier, recursive, tree, stack>>

read_bitable_fields ==
    /\ op = "read_bitable"
    /\ pc = "fields"
    /\ locals.i <= Len(locals.items)
    /\ \E o \in RequestOutcomes :
         /\ make_request(o)
         /\ reqlog' = Append(reqlog, Request("table_fields", locals.i, 0, o))
         /\ IF o = "ok"
            THEN pc' = "records" /\ UNCHANGED locals
            ELSE /\ locals' = [locals EXCEPT
                                 !.data = Append(locals.data,
                                                 TableError(locals.items[locals.i])),
                                 !.i = locals.i + 1]
                 /\ UNCHANGED pc
    /\ UNCHANGED <<op, result, pagerVars, resolverVars, hier, recursive, tree, stack>>

\* records = self._get_all_bitable_records(...): the loop modelled above; here
\* the call either raises or returns the records.
read_bitable_records ==
    /\ op = "read_bitable"
    /\ pc = "records"
    /\ \E o \in RequestOutcomes :
         /\ make_request(o)
         /\ reqlog' = Append(reqlog,
                Request("_get_all_bitable_records", locals.i, 0, o))
         /\ locals' = [locals EXCEPT
                         !.data = Append(locals.data,
                                     IF o = "ok"
                                     THEN TableEntry(locals.items[locals.i])
                                     ELSE TableError(locals.items[locals.i])),
                         !.i = locals.i + 1]
    /\ pc' = "fields"
    /\ UNCHANGED <<op, result, pagerVars, resolverVars, hier, recursive, tree, stack>>

read_bitable_return ==
    /\ op = "read_bitable"
    /\ pc = "fields"
    /\ locals.i > Len(locals.items)
    /\ pc' = "returned"
    /\ result' = [tag |-> "bitable", tables |-> locals.data,
                  table_count |-> Len(locals.items)]
    /\ UNCHANGED <<op, locals, authVars, pagerVars, resolverVars, hier, recursive,
                   tree, stack, reqlog>>

(***************************************************************************)
(* The specification.                                                      *)
(***************************************************************************)
vars == <<op, pc, tenant_access_token, auth_calls, page_token, all_items,
          all_records, sent, pages, arg, shape, hier, recursive, tree, stack,
          reqlog, locals, result>>

PagerOps == {"get_all_blocks", "get_wiki_children", "get_wiki_space_nodes",
             "get_all_bitable_records"}

ResolverOps == {"detect_type", "extract_token_from_url"}

\* A fresh FeishuUnifiedReader, and nothing returned yet.
InitReader ==
    /\ tenant_access_token = None
    /\ auth_calls = 0
    /\ result = Nothing

NoPager ==
    /\ page_token = None
    /\ all_items = <<>>
    /\ all_records = 0
    /\ sent = <<>>
    /\ pages = <<>>

NoResolver ==
    /\ arg = <<>>
    /\ shape = Nothing

NoWiki ==
    /\ hier = Nothing
    /\ recursive = FALSE
    /\ tree = <<>>
    /\ stack = <<>>
    /\ reqlog = <<>>
    /\ locals = Nothing

InitPager ==
    /\ op \in PagerOps
    /\ pc = "loop"
    /\ InitReader /\ NoPager /\ NoResolver /\ NoWiki

InitResolver ==
    /\ op \in ResolverOps
    /\ pc = "call"
    /\ shape \in IF op = "detect_type" THEN TokenShapes \cup UrlShapes ELSE UrlShapes
    /\ arg = Render(shape)
    /\ InitReader /\ NoPager /\ NoWiki

InitWikiSpace ==
    /\ op = "read_wiki_space"
    /\ pc = "space_info"
    /\ hier \in Wikis
    /\ recursive \in BOOLEAN
    /\ tree = <<>>
    /\ stack = <<>>
    /\ reqlog = <<>>
    /\ locals = Nothing
    /\ InitReader /\ NoPager /\ NoResolver

InitReadWiki ==
    /\ op = "read_wiki"
    /\ pc = "node_info"
    /\ hier \in Wikis
    /\ \E t \in DOMAIN hier.nodes :
         locals = [token |-> t, node_info |-> Nothing, content |-> None]
    /\ recursive = FALSE
    /\ tree = <<>>
    /\ stack = <<>>
    /\ reqlog = <<>>
    /\ InitReader /\ NoPager /\ NoResolver

InitRead ==
    /\ op = "read"
    /\ pc = "call"
    /\ shape \in ReadShapes
    /\ arg = Render(shape)
    /\ \E t \in DocTypes :
         locals = [doc_type |-> t, detected_type |-> None, token |-> None]
    /\ hier = Nothing
    /\ recursive = FALSE
    /\ tree = <<>>
    /\ stack = <<>>
    /\ reqlog = <<>>
    /\ InitReader /\ NoPager

\* A reader called on its own: no resolver input, no wiki.
NoTraversal ==
    /\ hier = Nothing
    /\ recursive = FALSE
    /\ tree = <<>>
    /\ stack = <<>>
    /\ reqlog = <<>>

InitReadDoc ==
    /\ op \in {"read_doc", "read_docx"}
    /\ pc = IF op = "read_doc" THEN "legacy" ELSE "docx_info"
    /\ \E t \in DocTokens :
         locals = [doc_token |-> t,
                   docx_token |-> IF op = "read_doc" THEN None ELSE t]
    /\ NoTraversal
    /\ InitReader /\ NoPager /\ NoResolver

InitReadTable ==
    /\ op \in {"read_sheet", "read_bitable"}
    /\ pc = "meta"
    /\ \E l \in Listings :
         locals = [listing |-> l, items |-> <<>>, i |-> 1, data |-> <<>>]
    /\ NoTraversal
    /\ InitReader /\ NoPager /\ NoResolver

Init ==
    \/ InitPager
    \/ InitResolver
    \/ InitWikiSpace
    \/ InitReadWiki
    \/ InitRead
    \/ InitReadDoc
    \/ InitReadTable

PagerNext ==
    \/ get_all_blocks
    \/ get_wiki_children
    \/ get_wiki_space_nodes
    \/ get_all_bitable_records

ResolverNext ==
    \/ call_detect_type
    \/ call_extract_token_from_url

WikiSpaceNext ==
    \/ space_info
    \/ root_nodes
    \/ recursive_entry
    \/ recursive_content
    \/ recursive_children
    \/ recursive_return

ReadWikiNext ==
    \/ wiki_node_info
    \/ wiki_content
    \/ wiki_children

ReadNext ==
    \/ read_resolve
    \/ read_dispatch

ReadDocNext ==
    \/ read_doc_legacy
    \/ read_docx_info
    \/ read_docx_blocks

ReadSheetNext ==
    \/ read_sheet_meta
    \/ read_sheet_values
    \/ read_sheet_return

ReadBitableNext ==
    \/ read_bitable_meta
    \/ read_bitable_tables
    \/ read_bitable_fields
    \/ read_bitable_records
    \/ read_bitable_return

Next ==
    \/ PagerNext
    \/ ResolverNext
    \/ WikiSpaceNext
    \/ ReadWikiNext
    \/ ReadNext
    \/ ReadDocNext
    \/ ReadSheetNext
    \/ ReadBitableNext

Spec == Init /\ [][Next]_vars

\* The pagination loops alone.  The reader is one sequential thread: a step
\* that can be taken is taken.
PagerSpec == InitPager /\ [][PagerNext]_vars /\ WF_vars(PagerNext)

\* The whole-space read alone, run to completion: every listing and every
\* reader call returns or raises, and the next step is taken.
WikiSpec == InitWikiSpace /\ [][WikiSpaceNext]_vars /\ WF_vars(WikiSpaceNext)

(***************************************************************************)
(* Properties.                                                             *)
(***************************************************************************)
Terminated == pc \in {"returned", "raised"}

ListOps == {"get_all_blocks", "get_wiki_children", "get_wiki_space_nodes"}

IsPrefix(s, t) == Len(s) <= Len(t) /\ SubSeq(t, 1, Len(s)) = s

Min(S) == CHOOSE i \in S : \A j \in S : i <= j
Max(S) == CHOOSE i \in S : \A j \in S : i >= j

\* C1: every pagination loop (blocks, bitable records, wiki children, wiki
\* space nodes) terminates whatever the endpoint answers: it ends when
\* has_more is false, when the cursor is absent or when a cap is hit.
C1_PaginationTerminates == (op \in PagerOps) ~> Terminated

\* A page reported has_more = true (the loop goes on) and gave no cursor.
MoreWithoutCursor ==
    op \in PagerOps /\ pc = "loop" /\ sent # <<>> /\ ~Truthy(page_token)

\* C2: once a response reports has_more = true but supplies no cursor, the
\* fetch issues no further request and returns what it has accumulated.
C2_NoRequestWithoutCursor ==
    [][(MoreWithoutCursor /\ Len(sent) < MaxLog)
          => (sent' = sent /\ pc' = "returned")]_vars

\* The pages received are [P0 (has_more, cursor c1), P1 (has_more, cursor c1
\* again or absent), P2 (no more)], or the first two of them.
StaleCursorScript ==
    /\ Len(pages) >= 2
    /\ Get(pages[1], "has_more", FALSE) /\ Truthy(Get(pages[1], "page_token", None))
    /\ Get(pages[2], "has_more", FALSE)
    /\ Get(pages[2], "page_token", None) \in {None, pages[1].page_token}
    /\ Len(pages) >= 3 => ~Get(pages[3], "has_more", FALSE)

\* C3: against the pages [P0 (has_more, cursor c1), P1 (has_more, cursor c1
\* again or absent), P2 (no more)] a paginated fetch makes at most 3 calls and
\* returns a prefix of P0.items + P1.items, never items of P2.
C3_StaleCursorReturnsFirstTwoPages ==
    (op \in ListOps /\ pc = "returned" /\ StaleCursorScript)
        => /\ Len(sent) <= 3
           /\ IsPrefix(result.items, pages[1].items \o pages[2].items)

\* C4: the bitable record fetch stops at the cap: the number of records it
\* returns never exceeds 10,000.
C4_RecordsNeverExceedCap ==
    (op = "get_all_bitable_records" /\ pc = "returned") => result.len <= RecordCap

RawTokenReturned == op = "detect_type" /\ pc = "returned" /\ shape.kind = "token"

\* The words of the inputs that are known prefixes, in the order of
\* TOKEN_PREFIXES, each with its kind.
PrefixWords ==
    << <<"docx_", "docx">>, <<"doc_", "doc">>, <<"sheet_", "sheet">>,
       <<"shtcn", "sheet">>, <<"base", "bitable">>, <<"bascn", "bitable">>,
       <<"wikcn", "wiki">> >>

\* The places in PrefixWords of the prefixes among the words of a token.
PrefixesIn(words) ==
    {i \in 1..Len(PrefixWords) : \E k \in 1..Len(words) : words[k] = PrefixWords[i][1]}

Unmatched(tokenText) ==
    [tag |-> "type", type |-> "docx", token |-> tokenText, warned |-> TRUE]

\* C7 as stated: a raw token that starts with a known prefix resolves to the
\* kind of that prefix; a token matching no prefix resolves to docx,
\* unchanged, with a warning.
C7_PrefixDecidesKind ==
    RawTokenReturned
        => /\ \A i \in 1..Len(TOKEN_PREFIXES) :
                StartsWith(arg, TOKEN_PREFIXES[i].prefix)
                    => result.type = TOKEN_PREFIXES[i].type
           /\ PrefixesIn(shape.words) = {} => result = Unmatched(arg)

\* C7, amended: a raw token resolves to the kind of the first prefix, in the
\* order of TOKEN_PREFIXES, that occurs anywhere in it; so a token that starts
\* with a known prefix resolves to that prefix's kind when no prefix listed
\* earlier occurs in it.  A token in which no prefix occurs resolves to docx,
\* unchanged, with a warning.  The token is returned unchanged in every case.
C7_FirstListedPrefixDecidesKind ==
    RawTokenReturned
        => LET in == PrefixesIn(shape.words)
           IN  /\ result.token = arg
               /\ in # {} => /\ result.type = PrefixWords[Min(in)][2]
                             /\ ~result.warned
               /\ \A i \in in :
                    (shape.words[1] = PrefixWords[i][1] /\ i = Min(in))
                        => result.type = PrefixWords[i][2]
               /\ in = {} => result = Unmatched(arg)

\* A token that starts with the wiki prefix and contains the bitable prefix.
C7_Witness ==
    /\ RawTokenReturned
    /\ shape.words = <<"wikcn", "base">>
    /\ result.type = "bitable"
    /\ result.token = Chars.wikcn \o Chars.base

MarkerWords == {"docx", "doc", "wiki", "sheets", "base", "file"}

\* The positions, in a URL's path, of the marker segments, and of those that
\* another segment follows.
MarkersIn(words) == {i \in 1..Len(words) : words[i] \in MarkerWords}
FollowedMarkersIn(words) == {i \in MarkersIn(words) : i < Len(words)}

UrlCallReturned ==
    op \in ResolverOps /\ pc = "returned" /\ shape.kind = "url"

\* C8 as stated: for every URL whose path has a marker segment, the token is
\* the segment right after a marker, also when the marker is the last segment.
C8_TokenFollowsMarker ==
    (UrlCallReturned /\ MarkersIn(shape.words) # {})
        => \E i \in FollowedMarkersIn(shape.words) :
              result.token = Chars[shape.words[i + 1]]

\* C8, amended: the token is the segment right after the first marker segment
\* that has a segment after it (query, fragment and parameters removed); when
\* the only marker segments end the path, it is the last non-empty segment.
C8_TokenFollowsFirstFollowedMarker ==
    (UrlCallReturned /\ MarkersIn(shape.words) # {})
        => LET w == shape.words
           IN  IF FollowedMarkersIn(w) # {}
               THEN result.token = Chars[w[Min(FollowedMarkersIn(w)) + 1]]
               ELSE result.token = Chars[w[Max({i \in 1..Len(w) : w[i] # "empty"})]]

\* Two markers, then the token, then a query string.
C8_Witness ==
    /\ UrlCallReturned
    /\ shape.words = <<"wiki", "docx", "Ab1">>
    /\ shape.tail = <<"?", "t", "=", "1">>
    /\ result.token = Chars.docx

(***************************************************************************)
(* Properties of the wiki reads.                                           *)
(***************************************************************************)
RecursiveRead == op = "read_wiki_space" /\ recursive

Entries(log) == {log[k] : k \in 1..Len(log)}

\* The reader calls logged for the node at position p.
ReadsAt(p) == {e \in Entries(reqlog) : e.at = p /\ e.kind \notin {"list", "space"}}

Unannotated(node) ==
    /\ node.content = Absent /\ node.content_error = Absent
    /\ node.children = Absent /\ node.children_error = Absent

\* The position of the chain's node at depth d: <<1, ..., 1>>, d + 1 long.
ChainPos(d) == [k \in 1..(d + 1) |-> 1]

\* A read is only ever aborted by its first two requests: the space info and
\* the root listing.
OnlyRootFailuresRaise ==
    pc = "raised" => /\ Len(reqlog) <= 2
                     /\ reqlog[Len(reqlog)].outcome # "ok"
                     /\ reqlog[Len(reqlog)].at = <<>>

\* C5: the recursive read of a chain of 8 nested nodes, each with has_child,
\* reads the content and lists the children of the nodes at depth 0 to 5,
\* returns the depth-6 node unexpanded (no content, no children, no error),
\* requests nothing for depth 6 or 7, and is not aborted.
C5_ChainStopsAtDepthSix ==
    (RecursiveRead /\ hier = Chain8)
        => /\ \A p \in DOMAIN tree :
                Depth(p) <= 6 /\ (Depth(p) = 6 => Unannotated(tree[p]))
           /\ \A e \in Entries(reqlog) : e.depth <= 5 /\ Depth(e.at) <= 5
           /\ OnlyRootFailuresRaise
           /\ (pc = "returned" /\ \A e \in Entries(reqlog) : e.outcome = "ok")
                => /\ \A d \in 0..5 :
                        /\ ChainPos(d) \in DOMAIN tree
                        /\ tree[ChainPos(d)].content = Resolved
                        /\ tree[ChainPos(d)].children = Listed
                        /\ tree[ChainPos(d)].content_error = Absent
                        /\ tree[ChainPos(d)].children_error = Absent
                        /\ ReadsAt(ChainPos(d)) # {}
                   /\ ChainPos(6) \in DOMAIN tree
                   /\ tree[ChainPos(6)].node_token = "n6"

\* The chain read to the end with no failure: seven nodes listed.
C5_Witness ==
    /\ RecursiveRead /\ hier = Chain8 /\ pc = "returned"
    /\ \A e \in Entries(reqlog) : e.outcome = "ok"
    /\ Cardinality(DOMAIN tree) = 7
    /\ Unannotated(tree[ChainPos(6)])

\* C6: the node list a recursive whole-space read returns has the length and
\* order of the root listing whatever content reads fail; a node whose content
\* read failed carries content_error, every other node of a readable kind
\* carries its content; a failed content read never aborts the read.
C6_ContentFailuresIsolated ==
    RecursiveRead
        => /\ OnlyRootFailuresRaise
           /\ pc = "returned"
                => /\ Len(result.nodes) = Len(hier.roots)
                   /\ result.node_count = Len(hier.roots)
                   /\ \A k \in 1..Len(hier.roots) :
                        LET node == result.nodes[k]
                            failed == \E e \in ReadsAt(<<k>>) : e.outcome # "ok"
                        IN  /\ node.node_token = hier.roots[k]
                            /\ failed => (node.content_error # Absent
                                            /\ node.content = Absent)
                            /\ (~failed /\ node.obj_type \in ReadableTypes)
                                  => (node.content = Resolved
                                        /\ node.content_error = Absent)

\* Three roots, the content read of the second failed.
C6_Witness ==
    /\ RecursiveRead /\ hier = Roots3 /\ pc = "returned"
    /\ Len(result.nodes) = 3
    /\ result.nodes[1].content = Resolved
    /\ result.nodes[2].content_error = Msg
    /\ result.nodes[2].content = Absent
    /\ result.nodes[3].content = Resolved

\* On a node dict, whose unset keys are Absent.
Exclusive(node) ==
    /\ ~(node.content # Absent /\ node.content_error # Absent)
    /\ ~(node.children # Absent /\ node.children_error # Absent)

\* On the dict _read_wiki returns, by its keys.
ExclusiveKeys(d) ==
    /\ ~({"content", "content_error"} \subseteq DOMAIN d)
    /\ ~({"children", "children_error"} \subseteq DOMAIN d)

\* C9: on every node of a traversal result, at every depth, content and
\* content_error are never both present, nor children and children_error,
\* whatever content reads and child listings fail.
C9_ErrorExcludesValue ==
    /\ \A p \in DOMAIN tree : Exclusive(tree[p])
    /\ (op = "read_wiki_space" /\ pc = "returned")
          => \A k \in 1..Len(result.nodes) : Exclusive(result.nodes[k])
    /\ (op = "read_wiki" /\ pc = "returned")
          => /\ ExclusiveKeys(result)
             /\ \A k \in 1..Len(result.children) : Exclusive(result.children[k])

\* A node below the roots whose content read failed and whose child listing
\* failed too.
C9_Witness ==
    /\ RecursiveRead /\ pc = "returned"
    /\ \E p \in DOMAIN tree :
         /\ Depth(p) >= 1
         /\ tree[p].content_error = Msg /\ tree[p].content = Absent
         /\ tree[p].children_error = Msg /\ tree[p].children = Absent

\* C10: in the single-node wiki read and in the recursive whole-space read
\* alike, a node whose obj_type has no reader gets an unsupported-kind note as
\* its content, no content_error, and no reader request.
C10_UnsupportedKindGetsNote ==
    /\ (op = "read_wiki" /\ pc = "returned"
            /\ result.node.obj_type \notin ReadableTypes)
          => /\ result.content = Note
             /\ ReadsAt(<<1>>) \subseteq {e \in Entries(reqlog) : e.kind = "get_node"}
    /\ (RecursiveRead /\ pc = "returned")
          => \A p \in DOMAIN tree :
                (Depth(p) <= MaxDepth /\ tree[p].obj_type \notin ReadableTypes)
                    => /\ tree[p].content = Note
                       /\ tree[p].content_error = Absent
                       /\ ReadsAt(p) = {}

\* C11: a top-level read whose resolved or explicitly supplied kind is file or
\* slides returns an explicit "not implemented" placeholder result, not an
\* error, and issues no content request.
C11_UnsupportedKindPlaceholder ==
    (op = "read" /\ Terminated /\ locals.detected_type \in {"file", "slides"})
        => /\ pc = "returned"
           /\ result # Raised
           /\ reqlog = <<>>

\* C12: every result a top-level read returns, of a single resource of any
\* supported kind or of a whole space, carries a metadata block recording the
\* resolved kind and the token; for a single resource these are the kind and
\* the token the resolver produced.
C12_ResultCarriesMeta ==
    /\ (op = "read" /\ pc = "returned")
          => /\ "_meta" \in DOMAIN result
             /\ result["_meta"].token = detect_type(arg).token
             /\ ~Truthy(locals.doc_type)
                   => result["_meta"].type = detect_type(arg).type
             /\ Truthy(locals.doc_type)
                   => result["_meta"].type = locals.doc_type
    /\ (op = "read_wiki_space" /\ pc = "returned")
          => "_meta" \in DOMAIN result

\* C13: over the requests one reader instance issues, failed and isolated
\* requests included, the credential endpoint is called at most once.
C13_CredentialFetchedOnce == auth_calls <= 1

RECURSIVE ItemsOf(_)
\* The items of a sequence of pages, page after page.
ItemsOf(ps) ==
    IF ps = <<>> THEN <<>>
    ELSE Get(Head(ps), "items", <<>>) \o ItemsOf(Tail(ps))

\* C14: in every paginated fetch the first request carries no cursor, each
\* later request carries the cursor the preceding response returned, and the
\* returned sequence is the items of all received pages in arrival order,
\* nothing dropped, duplicated or reordered.
C14_CursorChainAndArrivalOrder ==
    /\ (op \in PagerOps /\ sent # <<>>) => sent[1] = NoCursor
    /\ op \in ListOps
          => /\ \A k \in 2..Len(sent) :
                  k - 1 <= Len(pages)
                     => sent[k] = CursorParam(Get(pages[k - 1], "page_token", None))
             /\ Len(pages) < MaxLog => all_items = ItemsOf(pages)
             /\ pc = "returned" => result.items = all_items

\* A listing returned after three pages, reached through two cursors; the
\* second page is empty and the other two differ.
C14_Witness ==
    /\ op = "get_wiki_space_nodes" /\ pc = "returned"
    /\ sent = <<NoCursor, "c1", "c2">>
    /\ Len(pages) = 3
    /\ pages[1].items = <<"b", "c">> /\ pages[2].items = <<>>
    /\ pages[3].items = <<"a">>
    /\ result.items = <<"b", "c", "a">>

\* The child listings logged for the node at position p.
ListingsAt(p) == {e \in Entries(reqlog) : e.kind = "list" /\ e.at = p}

\* Position q lies strictly below position p.
Below(q, p) == Len(q) > Len(p) /\ SubSeq(q, 1, Len(p)) = p

\* In a recursive read: children are listed only for nodes with has_child; a
\* node whose listing failed carries children_error and nothing below it is
\* listed or requested; at the end every other node within the depth bound has
\* had its content read and its children listed.
ChildFailuresIsolated ==
    /\ \A e \in Entries(reqlog) :
          (e.kind = "list" /\ e.at # <<>>) => tree[e.at].has_child
    /\ \A p \in DOMAIN tree :
          (\E e \in ListingsAt(p) : e.outcome # "ok")
             => /\ tree[p].children_error = Msg
                /\ tree[p].children = Absent
                /\ \A q \in DOMAIN tree : ~Below(q, p)
                /\ \A e \in Entries(reqlog) : ~Below(e.at, p)
    /\ pc = "returned"
          => \A p \in DOMAIN tree :
                Depth(p) <= MaxDepth
                   => /\ tree[p].obj_type \in ReadableTypes => ReadsAt(p) # {}
                      /\ tree[p].has_child => Cardinality(ListingsAt(p)) = 1
                      /\ (tree[p].has_child /\ tree[p].children_error = Absent)
                            => tree[p].children = Listed

\* C15: in wiki traversal (the recursive read and the single-node read) the
\* child list of a node is requested only if it has has_child; when that
\* listing fails the node carries children_error, nothing below it is
\* requested, and every other node is resolved as without the failure.
C15_ChildListingFailureMarked ==
    /\ RecursiveRead => ChildFailuresIsolated
    /\ (op = "read_wiki" /\ pc = "returned")
          => /\ ListingsAt(<<1>>) # {} => result.node.has_child
             /\ (\E e \in ListingsAt(<<1>>) : e.outcome # "ok")
                   => "children_error" \in DOMAIN result

\* The requests logged for sub-item k.
SubItemRequests(k) == {e \in Entries(reqlog) : e.at = k}

\* Entry k of the result of a spreadsheet or bitable read is the sub-item
\* listed k-th: with an error and no data if a request for it failed, with
\* its data and no error otherwise.
SubItemEntry(entries, key, data, k) ==
    LET entry == entries[k]
        failed == \E e \in SubItemRequests(k) : e.outcome # "ok"
    IN  /\ entry[key] = locals.listing[k]
        /\ failed => ("error" \in DOMAIN entry /\ data \cap DOMAIN entry = {})
        /\ ~failed => (data \subseteq DOMAIN entry /\ "error" \notin DOMAIN entry)

\* C16: a spreadsheet (bitable) read returns one entry per sheet (table) the
\* metadata lists, in listing order, whatever per-sheet (per-table) fetches
\* fail: a failing sub-item carries error and no values (records), a
\* succeeding one its values (records) and no error; once the metadata is
\* fetched the read does not fail.
C16_SubItemFailuresIsolated ==
    /\ (op \in {"read_sheet", "read_bitable"} /\ pc = "raised")
          => /\ \A e \in Entries(reqlog) : e.at = 0
             /\ reqlog[Len(reqlog)].outcome # "ok"
    /\ (op = "read_sheet" /\ pc = "returned")
          => /\ Len(result.sheets) = Len(locals.listing)
             /\ result.spreadsheet.sheet_count = Len(locals.listing)
             /\ \A k \in 1..Len(locals.listing) :
                   SubItemEntry(result.sheets, "sheet_id", {"values"}, k)
    /\ (op = "read_bitable" /\ pc = "returned")
          => /\ Len(result.tables) = Len(locals.listing)
             /\ result.table_count = Len(locals.listing)
             /\ \A k \in 1..Len(locals.listing) :
                   SubItemEntry(result.tables, "table_id",
                                {"records", "fields", "record_count"}, k)

\* Three sheets, the second failed.
C16_Witness ==
    /\ op = "read_sheet" /\ pc = "returned"
    /\ locals.listing = <<"s1", "s2", "s1">>
    /\ "values" \in DOMAIN result.sheets[1]
    /\ "error" \in DOMAIN result.sheets[2]
    /\ "values" \in DOMAIN result.sheets[3]

\* The positions in the log of the requests of kind `kind`.
RequestsOf(kind) == {k \in 1..Len(reqlog) : reqlog[k].kind = kind}

\* C17: a legacy-document read first calls the legacy endpoint; if and only
\* if that call fails, the rich-document reader is invoked, once and on the
\* same token, and its result or failure is the outcome of the read; when the
\* legacy call succeeds the rich-document reader is never invoked.
C17_LegacyFallsBackOnce ==
    (op = "read_doc" /\ reqlog # <<>>)
        => LET legacy_ok == reqlog[1].outcome = "ok"
               docx == RequestsOf("docx_info") \cup RequestsOf("_get_all_blocks")
           IN  /\ reqlog[1].kind = "doc_meta"
               /\ reqlog[1].at = locals.doc_token
               /\ RequestsOf("doc_meta") = {1}
               /\ \A k \in docx : reqlog[k].at = locals.doc_token
               /\ legacy_ok => (docx = {} /\ pc = "returned"
                                  /\ result = DocResult(locals.doc_token))
               /\ ~legacy_ok
                     => /\ pc # "legacy"
                        /\ Cardinality(RequestsOf("docx_info")) <= 1
                        /\ Terminated => Cardinality(RequestsOf("docx_info")) = 1
                        /\ pc = "returned"
                              => /\ result = DocxResult(locals.doc_token)
                                 /\ \A k \in docx : reqlog[k].outcome = "ok"
                        /\ pc = "raised"
                              => /\ result = Raised
                                 /\ \E k \in docx : reqlog[k].outcome # "ok"

\* The legacy call failed and the rich-document reader returned.
C17_Witness ==
    /\ op = "read_doc" /\ pc = "returned"
    /\ Len(reqlog) = 3
    /\ reqlog[1].kind = "doc_meta" /\ reqlog[1].outcome # "ok"
    /\ result = DocxResult(locals.doc_token)

\* A request of an uncapped listing failed: it was sent and no page came back.
\* (Both logs grow by one per request until they hold MaxLog entries.)
ListingRequestFailed == op \in ListOps /\ Len(sent) # Len(pages)

\* C18: when a request inside a paginated fetch fails, the fetch issues no
\* further request, returns no partial item list, and propagates the failure
\* to its caller: the failed request is the fetch's last step, the fetch ends
\* raised, and what it had accumulated is not returned.
C18_FailureAbortsFetch ==
    /\ [](ListingRequestFailed
            => /\ Len(sent) = Len(pages) + 1
               /\ pc = "raised"
               /\ result = Raised)
    /\ []((op \in PagerOps /\ pc = "raised") => result = Raised)
    /\ [][(op \in PagerOps /\ pc = "raised") => FALSE]_vars
    /\ [][(op \in PagerOps /\ pc' = "raised")
            => /\ pc = "loop"
               /\ result' = Raised
               /\ all_items' = all_items
               /\ all_records' = all_records
               /\ page_token' = page_token
               /\ pages' = pages]_vars

\* The third request of a listing failed after two pages with items.
C18_Witness ==
    /\ op \in ListOps /\ pc = "raised"
    /\ Len(sent) = 3 /\ Len(pages) = 2
    /\ all_items # <<>>
    /\ result = Raised

\* C19: the recursive traversal terminates on every hierarchy whose listings
\* drain, a hierarchy deeper than the bound and one whose child listing
\* contains an ancestor included; no content read and no child listing is
\* ever requested for a node at depth 6 or more.
C19_TraversalTerminatesWithinDepth ==
    /\ (op = "read_wiki_space") ~> Terminated
    /\ [](op = "read_wiki_space"
            => \A e \in Entries(reqlog) :
                  e.depth <= MaxDepth /\ Depth(e.at) <= MaxDepth)

\* The traversal of the cyclic hierarchy returned, having followed the cycle
\* down to depth 6.
C19_Witness ==
    /\ RecursiveRead /\ hier = Mixed /\ pc = "returned"
    /\ \E p \in DOMAIN tree :
          /\ Depth(p) = MaxDepth + 1
          /\ Unannotated(tree[p])
          /\ \E q \in DOMAIN tree :
                Below(p, q) /\ tree[q].node_token = tree[p].node_token

\* C20: a whole-space read in non-recursive mode fetches the space info and
\* the root node listing (no parent filter) and nothing else: no content
\* request, no child listing; it returns the root nodes unmodified, in listing
\* order, and node_count is the number of root nodes.
C20_NonRecursiveReadsRootsOnly ==
    (op = "read_wiki_space" /\ ~recursive)
        => /\ Len(reqlog) <= 2
           /\ \A k \in 1..Len(reqlog) :
                 /\ reqlog[k].kind = IF k = 1 THEN "space" ELSE "list"
                 /\ reqlog[k].at = <<>>
           /\ stack = <<>>
           /\ \A p \in DOMAIN tree : Len(p) = 1 /\ Unannotated(tree[p])
           /\ pc = "returned"
                 => /\ Len(reqlog) = 2
                    /\ \A k \in 1..2 : reqlog[k].outcome = "ok"
                    /\ result.nodes = [k \in 1..Len(hier.roots) |->
                                          NodeDict(hier, hier.roots[k])]
                    /\ result.node_count = Len(hier.roots)

\* The non-recursive read of a space whose first root declares children and
\* has a kind without a reader: both roots returned as listed.
C20_Witness ==
    /\ op = "read_wiki_space" /\ ~recursive /\ pc = "returned"
    /\ hier = Mixed
    /\ result.node_count = 2
    /\ result.nodes[1].has_child /\ Unannotated(result.nodes[1])
    /\ result.nodes[2].node_token = "m2"

UrlKindReturned == op = "detect_type" /\ pc = "returned" /\ shape.kind = "url"

\* C21 as stated: for a URL the resolver's answer is its answer for the
\* extracted token, whatever that token is.
C21_UrlResolvesAsItsToken ==
    UrlKindReturned => detect_type(result.token) = result

\* C21, amended: for a URL the resolver returns the extracted token and the
\* kind of the first listed prefix that occurs in that token, docx if none
\* does; the path marker never influences the kind, so a sheets, base or wiki
\* marker followed by a token in which no prefix occurs resolves to docx.
\* The answer is the resolver's answer for the extracted token whenever that
\* token does not itself start with "http".
C21_KindDependsOnExtractedToken ==
    UrlKindReturned
        => LET token == extract_token_from_url(arg)
               hits == {i \in 1..Len(TOKEN_PREFIXES) :
                           Contains(token, TOKEN_PREFIXES[i].prefix)}
               w == shape.words
           IN  /\ result.token = token
               /\ result.type = IF hits = {} THEN "docx"
                                ELSE TOKEN_PREFIXES[Min(hits)].type
               /\ ~StartsWith(token, Chars.http) => detect_type(token) = result
               /\ (Len(w) >= 2 /\ w[1] \in {"sheets", "base", "wiki"}
                     /\ w[2] = "Ab1")
                     => result = Unmatched(Chars.Ab1)

\* A spreadsheet URL whose token has no known prefix resolved to docx.
C21_Witness ==
    /\ UrlKindReturned
    /\ shape.words = <<"sheets", "Ab1">>
    /\ shape.tail = <<"?", "t", "=", "1">>
    /\ result = Unmatched(Chars.Ab1)

RecordFetch == op = "get_all_bitable_records"

\* C22: in the bitable record fetch a further page is requested only while
\* the accumulated record count is at most 10,000, so with pages of at most
\* 500 records the returned list never has more than 10,500 records; the cap
\* is tested only after a page that reports has_more = true (a fetch that
\* goes on, or stops on a page that set a new cursor, has passed such a page).
C22_CapTestedAfterAppend ==
    /\ []((RecordFetch /\ pc = "loop") => all_records <= RecordCap)
    /\ [](RecordFetch => all_records <= RecordCap + RecordPageSize)
    /\ []((RecordFetch /\ pc = "returned")
            => /\ result.len = all_records
               /\ result.len <= RecordCap + RecordPageSize)
    /\ [][(RecordFetch /\ pc = "loop" /\ pc' = "returned"
             /\ page_token' # page_token)
            => all_records' > RecordCap]_vars
    /\ [][(RecordFetch /\ pc' = "returned" /\ all_records' <= RecordCap)
            => page_token' = page_token]_vars

\* The fetch stopped by the cap with a full page over it.
C22_Witness ==
    /\ RecordFetch /\ pc = "returned"
    /\ result.len = RecordCap + RecordPageSize
    /\ Truthy(page_token)

\* Position p comes no later than q when the tree is walked depth-first in
\* listing order: p is q, an ancestor of q, or left of q.
DepthFirstLeq(p, q) ==
    \/ IsPrefix(p, q)
    \/ \E i \in 1..Min({Len(p), Len(q)}) :
          p[i] < q[i] /\ \A j \in 1..(i - 1) : p[j] = q[j]

\* C23: the recursive traversal is sequential and depth-first in listing
\* order: the content request of a node is issued before its child listing,
\* every request of a node's subtree before any request of its next sibling,
\* and requests are issued one at a time.
C23_SequentialDepthFirst ==
    /\ [](RecursiveRead
            => \A j, k \in 1..Len(reqlog) :
                  j < k => /\ DepthFirstLeq(reqlog[j].at, reqlog[k].at)
                           /\ (reqlog[j].at = reqlog[k].at /\ reqlog[j].at # <<>>)
                                 => (reqlog[j].kind # "list"
                                       /\ reqlog[k].kind = "list"))
    /\ [][RecursiveRead
            => \/ reqlog' = reqlog
               \/ /\ Len(reqlog') = Len(reqlog) + 1
                  /\ SubSeq(reqlog', 1, Len(reqlog)) = reqlog]_vars

\* The cyclic hierarchy read to the end: the first root's subtree was
\* requested down to depth 5 before the second root's content.
C23_Witness ==
    /\ RecursiveRead /\ hier = Mixed /\ pc = "returned"
    /\ \E j, k \in 1..Len(reqlog) :
          /\ j < k
          /\ Below(reqlog[j].at, <<1>>) /\ reqlog[j].depth = MaxDepth
          /\ reqlog[k].at = <<2>> /\ reqlog[k].kind = "_read_docx"

====
